---- MODULE Spec2Model ----
(***************************************************************************)
(* A model of nexstar_control/device.py: the NexStarHandControl facade     *)
(* over a serial transport, its command encoders and response decoders.    *)
(*                                                                         *)
(* Bytes are naturals 0..255 and a bytes object is a sequence of them.     *)
(* Python integers are unbounded; the ones that can exceed 31 bits (the    *)
(* 32-bit angle fractions) are kept as big-endian sequences of hex digits  *)
(* without leading zeros (the empty sequence is 0).                        *)
(*                                                                         *)
(* An angle in degrees is kept as the hex digits of n, where the angle is  *)
(* n * 360 / 16^9 degrees.  On that grid angle * CONVERSION = n / 16^5 and *)
(* angle * CONVERSION_PRECISE = n / 16 exactly; the arithmetic of the      *)
(* model is exact where the program uses binary floating point.            *)
(***************************************************************************)
EXTENDS Integers, Sequences, FiniteSets, TLC

\* ------------------------------------------------------------------ bytes

\* b"#", the terminator read_until waits for and strip removes
Terminator == 35

\* b","
Comma == 44

\* ord("P"), the pass-through command of the slew and version frames
PassThrough == 80

IsByte(b) == b \in 0..255

\* bytes([...]): every element must be in range(256), else ValueError
BytesOk(list) == \A i \in 1..Len(list) : IsByte(list[i])

\* ------------------------------------------------- unbounded naturals

RECURSIVE Normalize(_)
\* drop leading zero digits
Normalize(ds) ==
    IF ds = <<>> THEN <<>>
    ELSE IF Head(ds) = 0 THEN Normalize(Tail(ds)) ELSE ds

RECURSIVE Inc(_)
\* ds + 1 on big-endian hex digits
Inc(ds) ==
    IF ds = <<>> THEN <<1>>
    ELSE LET n == Len(ds)
             last == ds[n]
             front == SubSeq(ds, 1, n - 1)
         IN IF last < 15 THEN Append(front, last + 1)
            ELSE Append(Inc(front), 0)

AllZero(ds) == \A i \in 1..Len(ds) : ds[i] = 0

\* ------------------------------------------------------ angle encoders

\* CONVERSION = 2**16 / 360: units per degree are 16^(9-5) per revolution,
\* so angle * CONVERSION drops FracDigits(FALSE) = 5 hex digits of n;
\* CONVERSION_PRECISE = 2**32 / 360 drops 1.
\* (mutant: the two conversion factors exchanged)
FracDigitsSwapped(is_precise) == IF is_precise THEN 5 ELSE 1

FracDigits(is_precise) == IF is_precise THEN 1 ELSE 5

\* the field width of the format spec: {x:08x} or {x:04x}
FieldWidth(is_precise) == IF is_precise THEN 8 ELSE 4

\* round(x): Python rounds a float to the nearest integer, ties to even
RoundHalfEven(int, frac) ==
    LET odd == int # <<>> /\ int[Len(int)] % 2 = 1
        above == frac # <<>> /\ (Head(frac) > 8 \/ (Head(frac) = 8 /\ ~AllZero(Tail(frac))))
        tie == frac # <<>> /\ Head(frac) = 8 /\ AllZero(Tail(frac))
    IN Normalize(IF above \/ (tie /\ odd) THEN Inc(int) ELSE int)

\* round(x * self.CONVERSION) / round(x * self.CONVERSION_PRECISE)
ToUnits(angle, is_precise) ==
    LET k == FracDigits(is_precise)
        n == Len(angle)
    IN IF n <= k
       THEN RoundHalfEven(<<>>, [i \in 1..k |-> IF i <= k - n THEN 0 ELSE angle[i - (k - n)]])
       ELSE RoundHalfEven(SubSeq(angle, 1, n - k), SubSeq(angle, n - k + 1, n))

\* the character of one hex digit under the "x" presentation type
HexChar(d) == IF d < 10 THEN 48 + d ELSE 87 + d

\* f"{x:04x}" / f"{x:08x}": lowercase hex, zero-padded to at least `width`
FormatHex(x, width) ==
    LET ds == IF x = <<>> THEN <<0>> ELSE x
        pad == IF Len(ds) < width THEN width - Len(ds) ELSE 0
    IN [i \in 1..(pad + Len(ds)) |-> IF i <= pad THEN 48 ELSE HexChar(ds[i - pad])]

\* f"{command}{x:04x},{y:04x}".encode(ENCODING)
AngleFrame(letter, x, y, is_precise) ==
    <<letter>> \o FormatHex(ToUnits(x, is_precise), FieldWidth(is_precise))
               \o <<Comma>>
               \o FormatHex(ToUnits(y, is_precise), FieldWidth(is_precise))

\* ----------------------------------------------------- transport reads

RECURSIVE IndexOf(_, _, _)
\* the first position >= i of byte b in s, or 0
IndexOf(s, b, i) ==
    IF i > Len(s) THEN 0
    ELSE IF s[i] = b THEN i ELSE IndexOf(s, b, i + 1)

\* Serial.read_until(b"#") on the input buffer: the bytes up to and including
\* the first terminator; with none before the timeout, whatever has arrived
ReadUntil(buf) ==
    LET i == IndexOf(buf, Terminator, 1)
    IN IF i = 0 THEN buf ELSE SubSeq(buf, 1, i)

RECURSIVE Count(_, _)
\* how many times byte b occurs in s
Count(s, b) ==
    IF s = <<>> THEN 0 ELSE (IF Head(s) = b THEN 1 ELSE 0) + Count(Tail(s), b)

\* what read_until leaves in the input buffer
AfterRead(buf) ==
    LET i == IndexOf(buf, Terminator, 1)
    IN IF i = 0 THEN <<>> ELSE SubSeq(buf, i + 1, Len(buf))

RECURSIVE LStrip(_, _)
LStrip(s, b) == IF s # <<>> /\ Head(s) = b THEN LStrip(Tail(s), b) ELSE s

RECURSIVE RStrip(_, _)
RStrip(s, b) ==
    IF s # <<>> /\ s[Len(s)] = b THEN RStrip(SubSeq(s, 1, Len(s) - 1), b) ELSE s

\* resp.strip(b"#"): every leading and trailing terminator byte removed
Strip(s) == RStrip(LStrip(s, Terminator), Terminator)

\* --------------------------------------------------- position decoder

RECURSIVE Split(_, _)
\* response.split(b","): the fields between the separators, all of them
Split(s, sep) ==
    LET i == IndexOf(s, sep, 1)
    IN IF i = 0 THEN <<s>>
       ELSE <<SubSeq(s, 1, i - 1)>> \o Split(SubSeq(s, i + 1, Len(s)), sep)

\* the bytes int() skips at both ends: space, \t, \n, \v, \f, \r
IsSpace(b) == b \in {32, 9, 10, 11, 12, 13}

RECURSIVE LStripSpace(_)
LStripSpace(s) == IF s # <<>> /\ IsSpace(Head(s)) THEN LStripSpace(Tail(s)) ELSE s

RECURSIVE RStripSpace(_)
RStripSpace(s) ==
    IF s # <<>> /\ IsSpace(s[Len(s)]) THEN RStripSpace(SubSeq(s, 1, Len(s) - 1)) ELSE s

IsHexChar(b) == b \in (48..57) \cup (97..102) \cup (65..70)

\* the value of one hex digit character, either case
HexVal(b) == IF b \in 48..57 THEN b - 48 ELSE IF b \in 97..102 THEN b - 87 ELSE b - 55

\* the digits of an int() literal: hex digits, single underscores between
\* digits (or right after the base prefix), at least one digit
DigitsOk(s, prefixed) ==
    /\ s # <<>>
    /\ \A i \in 1..Len(s) : IsHexChar(s[i]) \/ s[i] = 95
    /\ s[Len(s)] # 95
    /\ prefixed \/ s[1] # 95
    /\ \A i \in 1..(Len(s) - 1) : ~(s[i] = 95 /\ s[i + 1] = 95)

RECURSIVE DigitsOf(_)
DigitsOf(s) ==
    IF s = <<>> THEN <<>>
    ELSE IF Head(s) = 95 THEN DigitsOf(Tail(s))
    ELSE <<HexVal(Head(s))>> \o DigitsOf(Tail(s))

\* int(x, base=16) on bytes: surrounding whitespace, a sign, an 0x/0X prefix
\* and underscores are accepted; anything else raises ValueError
ParseHex(x) ==
    LET t == RStripSpace(LStripSpace(x))
        signed == t # <<>> /\ Head(t) \in {43, 45}
        neg == t # <<>> /\ Head(t) = 45
        u == IF signed THEN Tail(t) ELSE t
        prefixed == Len(u) >= 2 /\ u[1] = 48 /\ u[2] \in {120, 88}
        v == IF prefixed THEN SubSeq(u, 3, Len(u)) ELSE u
    IN IF DigitsOk(v, prefixed)
       THEN [ok |-> TRUE, neg |-> neg /\ Normalize(DigitsOf(v)) # <<>>,
             digits |-> Normalize(DigitsOf(v))]
       ELSE [ok |-> FALSE, neg |-> FALSE, digits |-> <<>>]

\* _handle_position_response: the length assertion, the split into exactly two
\* fields, int(.., base=16) of each; the angle returned is raw / CONVERSION
\* (raw / CONVERSION_PRECISE), kept as raw with its sign
HandlePositionResponse(response, is_precise) ==
    IF Len(response) # (IF is_precise THEN 17 ELSE 9)
    THEN [err |-> "MalformedResponse", value |-> <<>>]
    ELSE LET parts == Split(response, Comma)
         IN IF Len(parts) # 2 THEN [err |-> "ValueError", value |-> <<>>]
            ELSE LET x == ParseHex(parts[1])
                     y == ParseHex(parts[2])
                 IN IF ~x.ok \/ ~y.ok THEN [err |-> "ValueError", value |-> <<>>]
                    ELSE [err |-> "none",
                          value |-> <<[neg |-> x.neg, raw |-> x.digits, precise |-> is_precise],
                                      [neg |-> y.neg, raw |-> y.digits, precise |-> is_precise]>>]

\* ------------------------------------------------------- enumerations

\* DeviceType: AZM_RA_MOTOR, ALT_DEC_MOTOR, GPS_UNIT, RTC
DeviceTypeValues == {16, 17, 176, 178}

\* DeviceModel
DeviceModelValues == {1, 3, 4, 5, 6, 7, 9, 10, 11, 12}

\* TrackingMode: OFF, ALT_AZ, EQ_NORTH, EQ_SOUTH
TrackingModeValues == {0, 1, 2, 3}

\* CardinalDirectionLatitude / CardinalDirectionLongitude
CardinalDirectionValues == {0, 1}

\* --------------------------------------------------- command encoders

Abs(n) == IF n < 0 THEN -n ELSE n

NoFrame(e) == [err |-> e, frame |-> <<>>]

\* bytes(list): the frame, or ValueError when an element is not a byte
MakeBytes(list) ==
    IF BytesOk(list) THEN [err |-> "none", frame |-> list] ELSE NoFrame("ValueError")

\* _handle_variable_slew_rate: the assertion on the rate, then
\* (direction, rate_high, rate_low)
HandleVariableSlewRate(rate) ==
    IF ~(-16384 <= rate /\ rate <= 16384)
    THEN [err |-> "OutOfRange", direction |-> 0, rate_high |-> 0, rate_low |-> 0]
    ELSE [err |-> "none",
          direction |-> IF rate < 0 THEN 7 ELSE 6,
          rate_high |-> (Abs(rate) * 4) \div 256,
          rate_low |-> (Abs(rate) * 4) % 256]

\* slew_azm_variable / slew_alt_variable up to the query: the frame of axis
\* 16 or 17
VariableSlewFrame(axis, rate) ==
    LET h == HandleVariableSlewRate(rate)
    IN IF h.err # "none" THEN NoFrame(h.err)
       ELSE MakeBytes(<<PassThrough, 3, axis, h.direction, h.rate_high, h.rate_low, 0, 0>>)

\* (mutant: the reverse direction chosen with "rate <= 0")
FixedSlewFrameZeroReversed(axis, rate) ==
    IF ~(-9 <= rate /\ rate <= 9) THEN NoFrame("OutOfRange")
    ELSE MakeBytes(<<PassThrough, 2, axis, IF rate <= 0 THEN 37 ELSE 36, Abs(rate), 0, 0, 0>>)

\* slew_azm_fixed / slew_alt_fixed up to the query
FixedSlewFrame(axis, rate) ==
    IF ~(-9 <= rate /\ rate <= 9) THEN NoFrame("OutOfRange")
    ELSE MakeBytes(<<PassThrough, 2, axis, IF rate < 0 THEN 37 ELSE 36, Abs(rate), 0, 0, 0>>)

\* set_location up to the query
LocationFrame(lat, lng) ==
    MakeBytes(<<87, lat.degrees, lat.minutes, lat.seconds, lat.direction,
                lng.degrees, lng.minutes, lng.seconds, lng.direction>>)

\* (mutant: a negative zone offset sent as it is, without the 256 added)
TimeFrameNoWrap(time) ==
    IF time.tz = "naive" THEN NoFrame("AttributeError")
    ELSE LET hours == time.offset \div 3600
             dst == IF time.tz = "fixed" \/ time.dst # 0 THEN 1 ELSE 0
         IN MakeBytes(<<72, time.hour, time.minute, time.second, time.month, time.day,
                        time.year - 2000, hours, dst>>)

\* (mutant: the flag taken from the truth of time.dst(), None counting as no DST)
TimeFrameDstTruthy(time) ==
    IF time.tz = "naive" THEN NoFrame("AttributeError")
    ELSE LET hours == time.offset \div 3600
             zone_offset == IF hours < 0 THEN hours + 256 ELSE hours
             dst == IF time.tz = "zone" /\ time.dst # 0 THEN 1 ELSE 0
         IN MakeBytes(<<72, time.hour, time.minute, time.second, time.month, time.day,
                        time.year - 2000, zone_offset, dst>>)

\* set_time up to the query.  time.tz is "naive" (utcoffset() is None and
\* .total_seconds() raises AttributeError), "fixed" (a datetime.timezone:
\* dst() is None) or "zone" (a tzinfo whose dst() is timedelta(seconds=dst))
TimeFrame(time) ==
    IF time.tz = "naive" THEN NoFrame("AttributeError")
    ELSE LET hours == time.offset \div 3600
             zone_offset == IF hours < 0 THEN hours + 256 ELSE hours
             dst == IF time.tz = "fixed" \/ time.dst # 0 THEN 1 ELSE 0
         IN MakeBytes(<<72, time.hour, time.minute, time.second, time.month, time.day,
                        time.year - 2000, zone_offset, dst>>)

\* the goto letter: "R" if is_ra_dec else "B", lowercased when precise
GotoLetter(is_precise, is_ra_dec) ==
    IF is_ra_dec THEN (IF is_precise THEN 114 ELSE 82)
    ELSE (IF is_precise THEN 98 ELSE 66)

GotoOps == {"goto_ra_dec", "goto_ra_dec_precise", "goto_azm_alt", "goto_azm_alt_precise"}

SyncOps == {"sync_ra_dec", "sync_ra_dec_precise"}

PositionOps == {"get_position_ra_dec", "get_position_ra_dec_precise",
                "get_position_azm_alt", "get_position_azm_alt_precise"}

IsPrecise(name) ==
    name \in {"goto_ra_dec_precise", "goto_azm_alt_precise", "sync_ra_dec_precise",
              "get_position_ra_dec_precise", "get_position_azm_alt_precise"}

IsRaDec(name) == name \in {"goto_ra_dec", "goto_ra_dec_precise"}

\* the operations that make two queries: slew_variable and slew_fixed call the
\* azimuth then the altitude operation, slew_stop is slew_fixed(0, 0), and
\* _handle_goto_command calls is_aligned before its own query
TwoStageOps == {"slew_variable", "slew_fixed", "slew_stop"} \cup GotoOps

\* (mutant: every operation returns after its first query)
NStagesOne(name) == 1

NStages(name) == IF name \in TwoStageOps THEN 2 ELSE 1

\* the operations whose last query expects an empty response
AckOps == GotoOps \cup SyncOps \cup
          {"slew_azm_variable", "slew_alt_variable", "slew_variable",
           "slew_azm_fixed", "slew_alt_fixed", "slew_fixed", "slew_stop",
           "set_location", "set_time", "set_tracking_mode", "cancel_goto"}

\* the operations that decode a value from the response
ValueOps == PositionOps \cup
            {"get_location", "get_time", "get_tracking_mode", "get_device_version",
             "get_device_model", "is_connected", "is_aligned", "is_goto_in_progress"}

\* (mutant: the two-axis slews call the altitude operation first)
SlewAxisSwapped(stage) == IF stage = 1 THEN 17 ELSE 16

\* the axis of each call the two-axis slews make: slew_azm_* (16) first, then
\* slew_alt_* (17)
SlewAxis(stage) == IF stage = 1 THEN 16 ELSE 17

\* the code of operation `name` from the return of its previous query (or from
\* its entry) up to its next call of query: argument checks, then the frame
Prepare(name, args, stage) ==
    CASE name = "slew_azm_variable" -> VariableSlewFrame(16, args[1])
      [] name = "slew_alt_variable" -> VariableSlewFrame(17, args[1])
      [] name = "slew_variable" -> VariableSlewFrame(SlewAxis(stage), args[stage])
      [] name = "slew_azm_fixed" -> FixedSlewFrame(16, args[1])
      [] name = "slew_alt_fixed" -> FixedSlewFrame(17, args[1])
      [] name = "slew_fixed" -> FixedSlewFrame(SlewAxis(stage), args[stage])
      [] name = "slew_stop" -> FixedSlewFrame(SlewAxis(stage), 0)
      [] name \in GotoOps ->
            IF stage = 1 THEN [err |-> "none", frame |-> <<74>>]
            ELSE [err |-> "none",
                  frame |-> AngleFrame(GotoLetter(IsPrecise(name), IsRaDec(name)),
                                       args[1], args[2], IsPrecise(name))]
      [] name \in SyncOps ->
            [err |-> "none",
             frame |-> AngleFrame(IF IsPrecise(name) THEN 115 ELSE 83,
                                  args[1], args[2], IsPrecise(name))]
      [] name = "set_location" -> LocationFrame(args[1], args[2])
      [] name = "set_time" -> TimeFrame(args[1])
      [] name = "set_tracking_mode" -> MakeBytes(<<84, args[1]>>)
      [] name = "cancel_goto" -> [err |-> "none", frame |-> <<77>>]
      [] name = "get_position_ra_dec" -> [err |-> "none", frame |-> <<69>>]
      [] name = "get_position_ra_dec_precise" -> [err |-> "none", frame |-> <<101>>]
      [] name = "get_position_azm_alt" -> [err |-> "none", frame |-> <<90>>]
      [] name = "get_position_azm_alt_precise" -> [err |-> "none", frame |-> <<122>>]
      [] name = "get_location" -> [err |-> "none", frame |-> <<119>>]
      [] name = "get_time" -> [err |-> "none", frame |-> <<104>>]
      [] name = "get_tracking_mode" -> [err |-> "none", frame |-> <<116>>]
      [] name = "get_device_version" -> MakeBytes(<<PassThrough, 1, args[1], 254, 0, 0, 0, 2>>)
      [] name = "get_device_model" -> [err |-> "none", frame |-> <<109>>]
      [] name = "is_connected" -> [err |-> "none", frame |-> <<75, 120>>]
      [] name = "is_aligned" -> [err |-> "none", frame |-> <<74>>]
      [] name = "is_goto_in_progress" -> [err |-> "none", frame |-> <<76>>]
      [] OTHER -> [err |-> "none", frame |-> args[1]]

\* --------------------------------------------------- response decoders

NoValue == <<>>

Raise(e) == [err |-> e, warn |-> <<>>, value |-> NoValue]

Return(v) == [err |-> "none", warn |-> <<>>, value |-> <<v>>]

\* (mutant: a non-empty acknowledgement asserted away like a decoder's length)
HandleAckStrict(response) ==
    IF Len(response) # 0 THEN Raise("MalformedResponse")
    ELSE [err |-> "none", warn |-> <<>>, value |-> NoValue]

\* the tail of every acknowledgement-only operation:
\* if len(response) != 0: log.warning("Expected an empty response! ...")
HandleAck(response) ==
    [err |-> "none",
     warn |-> IF Len(response) # 0 THEN <<"ProtocolAnomaly">> ELSE <<>>,
     value |-> NoValue]

\* is_aligned: the length assertion, then response == b"\x01"
IsAligned(response) ==
    IF Len(response) # 1 THEN Raise("MalformedResponse") ELSE Return(response = <<1>>)

\* (mutant: alignment enforced, the goto refused when not aligned)
HandleGotoAlignmentEnforced(response) ==
    LET a == IsAligned(response)
    IN IF a.err # "none" THEN a
       ELSE IF a.value[1] THEN [err |-> "none", warn |-> <<>>, value |-> NoValue]
       ELSE [err |-> "NotAligned", warn |-> <<"NotAligned">>, value |-> NoValue]

\* the head of _handle_goto_command:
\* if not self.is_aligned(): log.warning("Telescope is not aligned ...")
HandleGotoAlignment(response) ==
    LET a == IsAligned(response)
    IN IF a.err # "none" THEN a
       ELSE [err |-> "none",
             warn |-> IF a.value[1] THEN <<>> ELSE <<"NotAligned">>,
             value |-> NoValue]

\* LatitudeDMS.__init__ / LongitudeDMS.__init__: the three assertions
DMSInRange(degrees, minutes, seconds, max_degrees) ==
    /\ 0 <= degrees /\ degrees <= max_degrees
    /\ 0 <= minutes /\ minutes <= 59
    /\ 0 <= seconds /\ seconds <= 59

DMS(degrees, minutes, seconds, direction) ==
    [degrees |-> degrees, minutes |-> minutes, seconds |-> seconds, direction |-> direction]

\* get_location after the query.  Python evaluates the arguments of
\* LatitudeDMS(...) first, so the enum lookup of the direction byte comes
\* before the range assertions of that constructor, latitude before longitude
GetLocation(r) ==
    IF Len(r) # 8 THEN Raise("MalformedResponse")
    ELSE IF r[4] \notin CardinalDirectionValues THEN Raise("InvalidEnumValue")
    ELSE IF ~DMSInRange(r[1], r[2], r[3], 90) THEN Raise("OutOfRange")
    ELSE IF r[8] \notin CardinalDirectionValues THEN Raise("InvalidEnumValue")
    ELSE IF ~DMSInRange(r[5], r[6], r[7], 180) THEN Raise("OutOfRange")
    ELSE Return(<<DMS(r[1], r[2], r[3], r[4]), DMS(r[5], r[6], r[7], r[8])>>)

IsLeap(year) == (year % 4 = 0 /\ year % 100 # 0) \/ year % 400 = 0

DaysInMonth(year, month) ==
    IF month = 2 THEN (IF IsLeap(year) THEN 29 ELSE 28)
    ELSE IF month \in {4, 6, 9, 11} THEN 30 ELSE 31

\* datetime.timezone(timedelta(hours=h)) accepts an offset strictly between
\* -24 h and 24 h; datetime.datetime(...) checks each field; both raise
\* ValueError
DateTimeOk(year, month, day, hour, minute, second, zone_offset) ==
    /\ -24 < zone_offset /\ zone_offset < 24
    /\ 1 <= month /\ month <= 12
    /\ 1 <= day /\ day <= DaysInMonth(year, month)
    /\ hour <= 23 /\ minute <= 59 /\ second <= 59

\* (mutant: the zone byte taken as it is, without the 256 subtracted)
GetTimeUnsignedZone(r) ==
    IF Len(r) # 8 THEN Raise("MalformedResponse")
    ELSE IF ~DateTimeOk(r[6] + 2000, r[4], r[5], r[1], r[2], r[3], r[7])
    THEN Raise("ValueError")
    ELSE Return([year |-> r[6] + 2000, month |-> r[4], day |-> r[5],
                 hour |-> r[1], minute |-> r[2], second |-> r[3],
                 offset_hours |-> r[7]])

\* (mutant: an hour added to the offset when the dst byte is 1)
GetTimeDstApplied(r) ==
    IF Len(r) # 8 THEN Raise("MalformedResponse")
    ELSE LET zone == IF r[7] > 24 THEN r[7] - 256 ELSE r[7]
             zone_offset == IF r[8] = 1 THEN zone + 1 ELSE zone
         IN IF ~DateTimeOk(r[6] + 2000, r[4], r[5], r[1], r[2], r[3], zone_offset)
            THEN Raise("ValueError")
            ELSE Return([year |-> r[6] + 2000, month |-> r[4], day |-> r[5],
                         hour |-> r[1], minute |-> r[2], second |-> r[3],
                         offset_hours |-> zone_offset])

\* get_time after the query
GetTime(r) ==
    IF Len(r) # 8 THEN Raise("MalformedResponse")
    ELSE LET zone_offset == IF r[7] > 24 THEN r[7] - 256 ELSE r[7]
         IN IF ~DateTimeOk(r[6] + 2000, r[4], r[5], r[1], r[2], r[3], zone_offset)
            THEN Raise("ValueError")
            ELSE Return([year |-> r[6] + 2000, month |-> r[4], day |-> r[5],
                         hour |-> r[1], minute |-> r[2], second |-> r[3],
                         offset_hours |-> zone_offset])

\* Enum(value): the member, or ValueError for a value that names none
EnumLookup(values, b) == IF b \in values THEN Return(b) ELSE Raise("InvalidEnumValue")

\* (mutant: the enum lookup made before the length assertion)
GetEnumLookupFirst(values, r) ==
    IF r # <<>> /\ r[1] \notin values THEN Raise("InvalidEnumValue")
    ELSE IF Len(r) # 1 THEN Raise("MalformedResponse") ELSE Return(r[1])

\* get_tracking_mode / get_device_model after the query
GetEnum(values, r) ==
    IF Len(r) # 1 THEN Raise("MalformedResponse") ELSE EnumLookup(values, r[1])

\* get_device_version after the query
GetDeviceVersion(r) ==
    IF Len(r) # 2 THEN Raise("MalformedResponse") ELSE Return(<<r[1], r[2]>>)

\* is_connected after the query
IsConnected(r) ==
    IF Len(r) # 1 THEN Raise("MalformedResponse") ELSE Return(r = <<120>>)

\* is_goto_in_progress after the query: response.decode("ascii") raises
\* UnicodeDecodeError on a byte above 127
IsGotoInProgress(r) ==
    IF Len(r) # 1 THEN Raise("MalformedResponse")
    ELSE IF r[1] > 127 THEN Raise("UnicodeDecodeError")
    ELSE Return(r = <<49>>)

\* get_position_*: _handle_position_response on the response
GetPosition(r, is_precise) ==
    LET h == HandlePositionResponse(r, is_precise)
    IN IF h.err # "none" THEN Raise(h.err) ELSE Return(h.value)

\* the code of operation `name` from the return of query number `stage` up to
\* its next statement that calls query, or to its return
Handle(name, stage, response) ==
    CASE name \in GotoOps /\ stage = 1 -> HandleGotoAlignment(response)
      [] name \in AckOps /\ ~(name \in GotoOps /\ stage = 1) -> HandleAck(response)
      [] name \in PositionOps -> GetPosition(response, IsPrecise(name))
      [] name = "get_location" -> GetLocation(response)
      [] name = "get_time" -> GetTime(response)
      [] name = "get_tracking_mode" -> GetEnum(TrackingModeValues, response)
      [] name = "get_device_version" -> GetDeviceVersion(response)
      [] name = "get_device_model" -> GetEnum(DeviceModelValues, response)
      [] name = "is_connected" -> IsConnected(response)
      [] name = "is_aligned" -> IsAligned(response)
      [] name = "is_goto_in_progress" -> IsGotoInProgress(response)
      [] OTHER -> Return(response)

\* ------------------------------------------------ binary floating point

\* A Python float is kept exactly, as a sign and a magnitude counted in
\* steps of LimbBase^-FixedLimbs (big-endian limbs, the empty sequence is 0).
\* Every float the conversions below meet lies on that grid; each operation
\* computes the exact result and rounds it as IEEE 754 binary64 does.

\* bits of a limb, and the number of values a limb takes
LimbBits == 16

LimbBase == 65536

\* limbs after the point in the fixed-point form of a float
FixedLimbs == 5

\* significant bits of a binary64 float
MantissaBits == 53

Float(neg, mag) == [neg |-> neg, mag |-> mag]

RECURSIVE XFromNat(_)
\* the limbs of a natural number
XFromNat(n) == IF n = 0 THEN <<>> ELSE Append(XFromNat(n \div LimbBase), n % LimbBase)

RECURSIVE XToNat(_)
\* the natural number of a few limbs
XToNat(ds) ==
    IF ds = <<>> THEN 0 ELSE XToNat(SubSeq(ds, 1, Len(ds) - 1)) * LimbBase + ds[Len(ds)]

XZeros(k) == [i \in 1..k |-> 0]

RECURSIVE XLexLess(_, _)
XLexLess(a, b) ==
    IF a = <<>> THEN FALSE
    ELSE IF Head(a) # Head(b) THEN Head(a) < Head(b) ELSE XLexLess(Tail(a), Tail(b))

\* a < b on normalized limbs
XLess(a, b) == IF Len(a) # Len(b) THEN Len(a) < Len(b) ELSE XLexLess(a, b)

RECURSIVE XAddCarry(_, _, _)
XAddCarry(a, b, c) ==
    IF a = <<>> /\ b = <<>> THEN (IF c = 0 THEN <<>> ELSE <<c>>)
    ELSE LET da == IF a = <<>> THEN 0 ELSE a[Len(a)]
             db == IF b = <<>> THEN 0 ELSE b[Len(b)]
             fa == IF a = <<>> THEN <<>> ELSE SubSeq(a, 1, Len(a) - 1)
             fb == IF b = <<>> THEN <<>> ELSE SubSeq(b, 1, Len(b) - 1)
             t == da + db + c
         IN Append(XAddCarry(fa, fb, t \div LimbBase), t % LimbBase)

\* a + b
XAdd(a, b) == Normalize(XAddCarry(a, b, 0))

RECURSIVE XSubBorrow(_, _, _)
XSubBorrow(a, b, c) ==
    IF a = <<>> THEN <<>>
    ELSE LET db == IF b = <<>> THEN 0 ELSE b[Len(b)]
             fb == IF b = <<>> THEN <<>> ELSE SubSeq(b, 1, Len(b) - 1)
             t == a[Len(a)] - db - c
         IN Append(XSubBorrow(SubSeq(a, 1, Len(a) - 1), fb, IF t < 0 THEN 1 ELSE 0),
                   IF t < 0 THEN t + LimbBase ELSE t)

\* a - b for a >= b
XSub(a, b) == Normalize(XSubBorrow(a, b, 0))

RECURSIVE XMulCarry(_, _, _)
XMulCarry(a, c, carry) ==
    IF a = <<>> THEN XFromNat(carry)
    ELSE LET t == a[Len(a)] * c + carry
         IN Append(XMulCarry(SubSeq(a, 1, Len(a) - 1), c, t \div LimbBase), t % LimbBase)

\* a * c for a small natural c
XMul(a, c) == Normalize(XMulCarry(a, c, 0))

RECURSIVE XDiv(_, _)
\* the quotient and the remainder of a by a small natural c
XDiv(a, c) ==
    IF a = <<>> THEN [q |-> <<>>, rem |-> 0]
    ELSE LET p == XDiv(SubSeq(a, 1, Len(a) - 1), c)
             t == p.rem * LimbBase + a[Len(a)]
         IN [q |-> Append(p.q, t \div c), rem |-> t % c]

\* a + 1
XInc(a) == XAdd(a, <<1>>)

RECURSIVE BitsOf(_)
\* the number of bits of a limb
BitsOf(d) == IF d = 0 THEN 0 ELSE 1 + BitsOf(d \div 2)

\* the number of bits of a normalized magnitude
BitLength(mag) == IF mag = <<>> THEN 0 ELSE LimbBits * (Len(mag) - 1) + BitsOf(Head(mag))

\* the limbs kept, one more if the limbs dropped (the first of them and the
\* rest) are above one half, or are one half and the last limb kept is odd
RoundKept(kept, first, rest) ==
    IF \/ first > LimbBase \div 2
       \/ /\ first = LimbBase \div 2
          /\ (Normalize(rest) # <<>> \/ kept[Len(kept)] % 2 = 1)
    THEN XInc(kept)
    ELSE kept

\* m rounded at its last `whole` limbs, then divided by factor
RoundShifted(m, whole, factor) ==
    Normalize(XDiv(RoundKept(SubSeq(m, 1, Len(m) - whole),
                             m[Len(m) - whole + 1],
                             SubSeq(m, Len(m) - whole + 2, Len(m))) \o XZeros(whole),
                   factor).q)

\* mag without its last `drop` bits, rounded: the magnitude is shifted left
\* until the bits to drop fill whole limbs, rounded there, and shifted back
RoundBits(mag, drop, whole) ==
    RoundShifted(XMul(mag, 2 ^ (LimbBits * whole - drop)), whole, 2 ^ (LimbBits * whole - drop))

\* round to nearest, ties to even, at MantissaBits significant bits
FRound(mag) ==
    IF BitLength(mag) <= MantissaBits THEN mag
    ELSE RoundBits(mag, BitLength(mag) - MantissaBits,
                   (BitLength(mag) - MantissaBits + LimbBits - 1) \div LimbBits)

\* float(n) for a small integer n: exact
FFromInt(n) ==
    Float(n < 0, Normalize(XFromNat(IF n < 0 THEN -n ELSE n) \o XZeros(FixedLimbs)))

\* p / q for naturals p and q > 0: the float nearest the quotient.  The
\* quotient is cut at the grid and a remainder makes its last limb odd, which
\* decides the rounding as the bits left out would
FDivNat(p, q) ==
    LET d == XDiv(XFromNat(p) \o XZeros(FixedLimbs), q)
        last == d.q[Len(d.q)]
        cut == IF d.rem = 0 \/ last % 2 = 1 THEN d.q
               ELSE [d.q EXCEPT ![Len(d.q)] = last + 1]
    IN Float(FALSE, FRound(Normalize(cut)))

\* a + b for non-negative floats
FAdd(a, b) == Float(FALSE, FRound(XAdd(a.mag, b.mag)))

\* a - b for non-negative floats
FSub(a, b) ==
    IF XLess(a.mag, b.mag) THEN Float(TRUE, FRound(XSub(b.mag, a.mag)))
    ELSE Float(FALSE, FRound(XSub(a.mag, b.mag)))

\* a * c for a float a and a small natural c
FMul(a, c) == Float(a.neg, FRound(XMul(a.mag, c)))

\* int(a): the integer part, towards zero
FInt(a) ==
    LET n == IF Len(a.mag) <= FixedLimbs THEN 0
             ELSE XToNat(SubSeq(a.mag, 1, Len(a.mag) - FixedLimbs))
    IN IF a.neg THEN -n ELSE n

\* abs(a) and -a
FAbs(a) == Float(FALSE, a.mag)

FNeg(a) == Float(~a.neg, a.mag)

\* a >= 0 (true of -0.0) and |a| <= n for a natural n
FNonNegative(a) == ~a.neg \/ a.mag = <<>>

FWithin(a, n) == ~XLess(FFromInt(n).mag, a.mag)

\* ------------------------------------------------------- value objects

\* to_dms(value)
to_dms(value) ==
    LET v == FAbs(value)
        degrees == FInt(v)
        rest == FSub(v, FFromInt(degrees))
        minutes == FInt(FMul(rest, 60))
        seconds == FInt(FMul(FSub(rest, FDivNat(minutes, 60)), 3600))
    IN <<degrees, minutes, seconds>>

\* the largest degrees a LatitudeDMS ("lat") or a LongitudeDMS ("lon") takes,
\* which is also the bound of its from_decimal
MaxDegrees(kind) == IF kind = "lat" THEN 90 ELSE 180

NoObject == DMS(0, 0, 0, 0)

\* (mutant: minutes and seconds admitted up to 60)
NewDMSUpToSixty(kind, degrees, minutes, seconds, direction) ==
    IF /\ 0 <= degrees /\ degrees <= MaxDegrees(kind)
       /\ 0 <= minutes /\ minutes <= 60
       /\ 0 <= seconds /\ seconds <= 60
    THEN [err |-> "none", obj |-> DMS(degrees, minutes, seconds, direction)]
    ELSE [err |-> "OutOfRange", obj |-> NoObject]

\* LatitudeDMS(...) / LongitudeDMS(...): the three assertions, then the fields
NewDMS(kind, degrees, minutes, seconds, direction) ==
    IF DMSInRange(degrees, minutes, seconds, MaxDegrees(kind))
    THEN [err |-> "none", obj |-> DMS(degrees, minutes, seconds, direction)]
    ELSE [err |-> "OutOfRange", obj |-> NoObject]

\* x.to_decimal(): degrees + minutes / 60 + seconds / 3600, negated unless
\* the direction is NORTH / EAST (0)
to_decimal(x) ==
    LET absval == FAdd(FAdd(FFromInt(x.degrees), FDivNat(x.minutes, 60)),
                       FDivNat(x.seconds, 3600))
    IN IF x.direction = 0 THEN absval ELSE FNeg(absval)

\* (mutant: the bound of from_decimal made exclusive)
from_decimal_exclusive(kind, value) ==
    IF ~(XLess(value.mag, FFromInt(MaxDegrees(kind)).mag))
    THEN [err |-> "OutOfRange", obj |-> NoObject]
    ELSE LET direction == IF FNonNegative(value) THEN 0 ELSE 1
             dms == to_dms(value)
         IN NewDMS(kind, dms[1], dms[2], dms[3], direction)

\* LatitudeDMS.from_decimal(value) / LongitudeDMS.from_decimal(value)
from_decimal(kind, value) ==
    IF ~FWithin(value, MaxDegrees(kind))
    THEN [err |-> "OutOfRange", obj |-> NoObject]
    ELSE LET direction == IF FNonNegative(value) THEN 0 ELSE 1
             dms == to_dms(value)
         IN NewDMS(kind, dms[1], dms[2], dms[3], direction)

\* -------------------------------------------------------------- inputs

\* how many times __del__ may run on one object (once by the collector, and
\* each explicit call before that)
MaxDel == 2

\* how many complete replies may wait unread in the transport's input buffer
\* when the device sends another one
MaxBacklog == 0

\* variable slew rates, in arcseconds/second
Rates == {-16385, -16384, -1000, 0, 1000, 16384, 16385}

\* the rate pairs of slew_variable: each rate valid, at the bound, or outside
RatePairs == {<<azm, alt>> : azm \in {-1000, 16384, 16385}, alt \in {0, -16384, -16385}}
             \cup {<<1000, -500>>}

\* fixed slew rates
FixedRates == (-10)..10

\* the rate pairs of slew_fixed
FixedRatePairs == {<<azm, alt>> : azm \in {-9, 0, 10}, alt \in {-10, -1, 9}}

\* angles, as the hex digits of n with angle = n * 360 / 16^9 degrees
A0 == <<0, 0, 0, 0, 0, 0, 0, 0, 0>>
A90 == <<4, 0, 0, 0, 0, 0, 0, 0, 0>>
A180 == <<8, 0, 0, 0, 0, 0, 0, 0, 0>>
\* 2.5 coarse units: a tie at coarse precision
ATie == <<0, 0, 0, 2, 8, 0, 0, 0, 0>>
\* 0x1234567 + 8/16 precise units: a tie at precise precision
ATiePrecise == <<0, 1, 2, 3, 4, 5, 6, 7, 8>>
\* 360 - 360/2^17: the largest angle that is a tie at coarse precision
ANearFull == <<15, 15, 15, 15, 8, 0, 0, 0, 0>>
\* 360 - 360/2^36: the largest angle of the grid below 360
ALast == <<15, 15, 15, 15, 15, 15, 15, 15, 15>>
\* 360 degrees, outside [0, 360)
AFull == <<1, 0, 0, 0, 0, 0, 0, 0, 0, 0>>

Angles == {A0, A90, A180, ATie, ATiePrecise, ANearFull, ALast, AFull}

\* n < 16^9: the angle is in [0, 360)
InRevolution(angle) == Len(Normalize(angle)) <= 9

AnglePairs == {<<x, A90>> : x \in Angles} \cup
              {<<A90, A180>>, <<A90, ALast>>, <<A0, ATie>>, <<A180, ATiePrecise>>}

Locations == {<<DMS(45, 30, 0, 1), DMS(120, 45, 0, 0)>>,
              <<DMS(90, 0, 0, 0), DMS(180, 0, 0, 1)>>}

Time(year, month, day, hour, minute, second, tz, offset, dst) ==
    [year |-> year, month |-> month, day |-> day, hour |-> hour, minute |-> minute,
     second |-> second, tz |-> tz, offset |-> offset, dst |-> dst]

\* timestamps: fixed-offset zones, a zone with and without DST in effect,
\* half-hour offsets, a naive timestamp and years outside 2000..2255
Times == {Time(2023, 5, 17, 15, 30, 45, "fixed", 18000, 0),
          Time(2023, 5, 17, 15, 30, 45, "fixed", -25200, 0),
          Time(2023, 5, 17, 15, 30, 45, "fixed", 0, 0),
          Time(2023, 1, 17, 15, 30, 45, "zone", -28800, 0),
          Time(2023, 7, 17, 15, 30, 45, "zone", -25200, 3600),
          Time(2023, 7, 17, 15, 30, 45, "zone", 19800, 0),
          Time(2023, 7, 17, 15, 30, 45, "zone", -12600, 0),
          Time(2023, 7, 17, 15, 30, 45, "naive", 0, 0),
          Time(1999, 12, 31, 23, 59, 59, "fixed", 0, 0),
          Time(2256, 1, 1, 0, 0, 0, "fixed", 0, 0)}

\* commands handed to write and query directly
RawCommands == {<<86>>}

\* what the device may put on the line after a frame, terminator included
\* when it sends one
Replies ==
    { <<>>,                                                   \* nothing before the timeout
      <<35>>,                                                 \* "#"
      <<1, 35>>, <<0, 35>>, <<8, 35>>, <<200, 35>>,           \* one raw byte
      <<49, 35>>,                                             \* "1#"
      <<120, 35>>,                                            \* "x#"
      <<1>>,                                                  \* one byte, no terminator
      <<4, 12, 35>>,                                          \* two bytes
      <<52, 48, 48, 48, 44, 56, 48, 48, 48, 35>>,             \* "4000,8000#"
      <<49, 50, 51, 44, 53, 54, 55, 56, 35>>,                 \* "123,5678#"
      <<52, 48, 48, 48, 32, 56, 48, 48, 48, 35>>,             \* "4000 8000#"
      <<45, 49, 50, 51, 44, 48, 120, 52, 53, 35>>,            \* "-123,0x45#"
      <<52, 48, 48, 48, 48, 48, 48, 48, 44, 56, 48, 48, 48, 48, 48, 48, 48, 35>>,
                                                              \* "40000000,80000000#"
      <<48, 46, 48, 0, 120, 46, 48, 1, 35>>,                  \* a location
      <<48, 46, 48, 2, 120, 46, 48, 1, 35>>,                  \* latitude direction 2
      <<7, 30, 28, 4, 10, 20, 11, 0, 35>>,                    \* a time, zone +11
      <<91, 30, 0, 0, 120, 45, 0, 2, 35>>,                    \* latitude 91, longitude direction 2
      <<7, 30, 28, 4, 10, 20, 11, 1, 35>>,                    \* zone +11, dst 1
      <<7, 30, 28, 4, 10, 20, 239, 1, 35>>,                   \* zone 0xEF, dst 1
      <<7, 30, 35, 4, 10, 20, 11, 0, 35>> }                   \* a time with second 35

\* ---------------------------------------------------------------- state

VARIABLES
    life,        \* "new" before __init__, "open" after it returned, "failed" after it raised
    initResult,  \* what __init__ gave its caller: "none", "ok" or "TransportError"
    ser,         \* self.ser: "None" or "Serial"
    portOpen,    \* whether the transport's port is open
    closeCalls,  \* how many times Serial.close has been called
    delCalls,    \* how many times __del__ has run
    rxbuf,       \* the transport's input buffer
    pc,          \* the caller: "idle", "send" (before a write), "recv" (in read_until), "done"
    op,          \* the operation in progress, "none" when idle
    args,        \* its arguments
    stage,       \* which of its queries it is at
    written,     \* the frames handed to Serial.write that it accepted, this call
    txCalls,     \* calls of Serial.write this call
    rxCalls,     \* calls of Serial.read_until this call
    responses,   \* what query returned, this call
    warnings,    \* log.warning records of this call
    result,      \* "none" while running, "ok" on return, else the error raised
    value,       \* <<v>> when v was returned, <<>> otherwise
    tpc,         \* threads sharing one facade: where each is, as pc
    tcall,       \* the operation, arguments and stage of each
    tresult,     \* the result of each, as result
    tfrom,       \* per thread: whose request each response it decoded answered
    line,        \* the frames on the wire the device has not answered yet, with their writers
    owners,      \* for each reply waiting in rxbuf, the writer of the request it answers
    din,         \* a decoder applied on its own: the operation and the response handed to it
    dout,        \* what it raised or returned
    vin,         \* a conversion applied on its own: the function and its arguments
    vout,        \* <<>> before it has run, then <<what it gave>>
    held,        \* <<>>, or the <<LatitudeDMS, LongitudeDMS>> objects a caller holds
    assigns      \* how many attribute assignments were made to those objects

vars == <<life, initResult, ser, portOpen, closeCalls, delCalls, rxbuf, pc, op, args,
          stage, written, txCalls, rxCalls, responses, warnings, result, value,
          tpc, tcall, tresult, tfrom, line, owners, din, dout, vin, vout, held, assigns>>

objVars == <<life, initResult, ser, portOpen, closeCalls, delCalls>>

callVars == <<pc, op, args, stage, written, txCalls, rxCalls, responses, warnings,
              result, value>>

threadVars == <<tpc, tcall, tresult, tfrom, line, owners>>

valueVars == <<vin, vout, held, assigns>>

\* the variables of the functions applied on their own
decodeVars == <<din, dout, valueVars>>

\* the threads that may share one facade
Callers == {"a", "b"}

NoCall == [op |-> "none", args |-> <<>>, stage |-> 0]

\* no thread but the single caller of pc uses the facade
ThreadsIdle ==
    /\ tpc = [c \in Callers |-> "idle"]
    /\ tcall = [c \in Callers |-> NoCall]
    /\ tresult = [c \in Callers |-> "none"]
    /\ tfrom = [c \in Callers |-> <<>>]
    /\ line = <<>>
    /\ owners = <<>>

NoInput == [name |-> "none", response |-> <<>>]

\* dout is <<>> before the decoder has run, <<h>> once it gave h
NoOutput == <<>>

\* the float literal -p/q or p/q
Decimal(neg, p, q) == [neg |-> neg, p |-> p, q |-> q]

\* the arguments of a conversion: which of the two classes ("lat", "lon") or
\* which operation, integers, a float and a timestamp, each where it applies
ValueInput(fn, kind, ints, x, t) == [fn |-> fn, kind |-> kind, ints |-> ints, x |-> x, t |-> t]

NoDecimal == Decimal(FALSE, 0, 1)

NoTime == Time(2000, 1, 1, 0, 0, 0, "fixed", 0, 0)

NoValueInput == ValueInput("none", "none", <<>>, NoDecimal, NoTime)

ValuesIdle == vin = NoValueInput /\ vout = <<>> /\ held = <<>> /\ assigns = 0

DecoderIdle == din = NoInput /\ dout = NoOutput /\ ValuesIdle

Init ==
    /\ life = "new"
    /\ initResult = "none"
    /\ ser = "None"
    /\ portOpen = FALSE
    /\ closeCalls = 0
    /\ delCalls = 0
    /\ rxbuf = <<>>
    /\ pc = "idle"
    /\ op = "none"
    /\ args = <<>>
    /\ stage = 0
    /\ written = <<>>
    /\ txCalls = 0
    /\ rxCalls = 0
    /\ responses = <<>>
    /\ warnings = <<>>
    /\ result = "none"
    /\ value = NoValue
    /\ ThreadsIdle
    /\ DecoderIdle

\* ------------------------------------------------------------- actions

\* __init__: self.ser = None, then serial.Serial(port, ...) either returns the
\* open port or raises SerialException, which is logged and re-raised
Construct(opened) ==
    /\ life = "new"
    /\ life' = IF opened THEN "open" ELSE "failed"
    /\ initResult' = IF opened THEN "ok" ELSE "TransportError"
    /\ ser' = IF opened THEN "Serial" ELSE "None"
    /\ portOpen' = opened
    /\ UNCHANGED <<closeCalls, delCalls, rxbuf>>
    /\ UNCHANGED callVars
    /\ UNCHANGED <<threadVars, decodeVars>>

\* (mutant: close called without the check of self.ser)
DelUnguarded ==
    /\ life # "new"
    /\ pc = "idle"
    /\ delCalls < MaxDel
    /\ delCalls' = delCalls + 1
    /\ closeCalls' = closeCalls + 1
    /\ portOpen' = FALSE
    /\ UNCHANGED <<life, initResult, ser, rxbuf>>
    /\ UNCHANGED callVars
    /\ UNCHANGED <<threadVars, decodeVars>>

\* __del__: closes the port when self.ser is not None; self.ser is left as is
Del ==
    /\ life # "new"
    /\ pc = "idle"
    /\ delCalls < MaxDel
    /\ delCalls' = delCalls + 1
    /\ closeCalls' = IF ser # "None" THEN closeCalls + 1 ELSE closeCalls
    /\ portOpen' = IF ser # "None" THEN FALSE ELSE portOpen
    /\ UNCHANGED <<life, initResult, ser, rxbuf>>
    /\ UNCHANGED callVars
    /\ UNCHANGED <<threadVars, decodeVars>>

\* a caller enters operation `name` with arguments `a`.  The object of a
\* failed __init__ has self.ser = None, the state the guard in write() tests
\* for; a caller that kept that object may call it like any other
Enter(name, a) ==
    /\ life # "new"
    /\ pc = "idle"
    /\ pc' = "send"
    /\ op' = name
    /\ args' = a
    /\ stage' = 1
    /\ UNCHANGED <<written, txCalls, rxCalls, responses, warnings, result, value>>
    /\ UNCHANGED objVars
    /\ UNCHANGED rxbuf
    /\ UNCHANGED <<threadVars, decodeVars>>

Invoke ==
    \/ \E name \in {"slew_azm_variable", "slew_alt_variable"}, r \in Rates : Enter(name, <<r>>)
    \/ \E rates \in RatePairs : Enter("slew_variable", rates)
    \/ \E name \in {"slew_azm_fixed", "slew_alt_fixed"}, r \in FixedRates : Enter(name, <<r>>)
    \/ \E rates \in FixedRatePairs : Enter("slew_fixed", rates)
    \/ \E name \in GotoOps \cup SyncOps, xy \in AnglePairs : Enter(name, xy)
    \/ \E loc \in Locations : Enter("set_location", loc)
    \/ \E t \in Times : Enter("set_time", <<t>>)
    \/ \E m \in TrackingModeValues : Enter("set_tracking_mode", <<m>>)
    \/ \E d \in DeviceTypeValues : Enter("get_device_version", <<d>>)
    \/ \E name \in {"slew_stop", "cancel_goto"} \cup (ValueOps \ {"get_device_version"}) :
          Enter(name, <<>>)
    \/ \E name \in {"write", "query"}, c \in RawCommands : Enter(name, <<c>>)

\* the operation raises `e`
Fails(e) ==
    /\ pc' = "done"
    /\ result' = e
    /\ UNCHANGED <<op, args, stage, written, txCalls, rxCalls, responses, warnings, value>>

\* (mutant: a write that failed is tried again)
WriteStepRetry(fails) ==
    /\ pc = "send"
    /\ LET p == Prepare(op, args, stage)
       IN IF p.err # "none" THEN Fails(p.err)
          ELSE IF ser = "None" THEN Fails("NotOpen")
          ELSE /\ txCalls' = txCalls + 1
               /\ IF ~portOpen \/ fails
                  THEN /\ pc' = "send"
                       /\ result' = result
                       /\ written' = written
                  ELSE /\ written' = Append(written, p.frame)
                       /\ pc' = IF op = "write" THEN "done" ELSE "recv"
                       /\ result' = IF op = "write" THEN "ok" ELSE result
               /\ UNCHANGED <<op, args, stage, rxCalls, responses, warnings, value>>
    /\ UNCHANGED objVars
    /\ UNCHANGED rxbuf
    /\ UNCHANGED <<threadVars, decodeVars>>

\* the operation runs up to and through its next Serial.write: the argument
\* checks and the frame (Prepare), then write(): SerialException("Serial port
\* is not open") when self.ser is None, else self.ser.write(command), which
\* raises on a closed port and may fail (`fails`) on an open one
WriteStep(fails) ==
    /\ pc = "send"
    /\ LET p == Prepare(op, args, stage)
       IN IF p.err # "none" THEN Fails(p.err)
          ELSE IF ser = "None" THEN Fails("NotOpen")
          ELSE /\ txCalls' = txCalls + 1
               /\ IF ~portOpen \/ fails
                  THEN /\ pc' = "done"
                       /\ result' = "TransportError"
                       /\ written' = written
                  ELSE /\ written' = Append(written, p.frame)
                       /\ pc' = IF op = "write" THEN "done" ELSE "recv"
                       /\ result' = IF op = "write" THEN "ok" ELSE result
               /\ UNCHANGED <<op, args, stage, rxCalls, responses, warnings, value>>
    /\ UNCHANGED objVars
    /\ UNCHANGED rxbuf
    /\ UNCHANGED <<threadVars, decodeVars>>

\* query() after its write: the device has put `raw` on the line,
\* self.ser.read_until(b"#") returns, the terminator is stripped, and the
\* operation runs on that response up to its next query or its return
ReadStep(raw) ==
    /\ pc = "recv"
    /\ raw = <<>> \/ Count(rxbuf, Terminator) <= MaxBacklog
    /\ LET buf == rxbuf \o raw
           response == Strip(ReadUntil(buf))
           h == Handle(op, stage, response)
       IN /\ rxbuf' = AfterRead(buf)
          /\ rxCalls' = rxCalls + 1
          /\ responses' = Append(responses, response)
          /\ warnings' = warnings \o h.warn
          /\ IF h.err # "none"
             THEN pc' = "done" /\ result' = h.err /\ value' = value /\ stage' = stage
             ELSE IF stage < NStages(op)
             THEN pc' = "send" /\ result' = result /\ value' = value /\ stage' = stage + 1
             ELSE pc' = "done" /\ result' = "ok" /\ value' = h.value /\ stage' = stage
    /\ UNCHANGED <<op, args, written, txCalls>>
    /\ UNCHANGED objVars
    /\ UNCHANGED <<threadVars, decodeVars>>

\* self.ser.read_until raises (the line went away)
ReadFails ==
    /\ pc = "recv"
    /\ pc' = "done"
    /\ result' = "TransportError"
    /\ rxCalls' = rxCalls + 1
    /\ UNCHANGED <<op, args, stage, written, txCalls, responses, warnings, value>>
    /\ UNCHANGED objVars
    /\ UNCHANGED rxbuf
    /\ UNCHANGED <<threadVars, decodeVars>>

\* the call is over: its caller has the result
Finish ==
    /\ pc = "done"
    /\ pc' = "idle"
    /\ op' = "none"
    /\ args' = <<>>
    /\ stage' = 0
    /\ written' = <<>>
    /\ txCalls' = 0
    /\ rxCalls' = 0
    /\ responses' = <<>>
    /\ warnings' = <<>>
    /\ result' = "none"
    /\ value' = NoValue
    /\ UNCHANGED objVars
    /\ UNCHANGED rxbuf
    /\ UNCHANGED <<threadVars, decodeVars>>

Next ==
    \/ \E opened \in BOOLEAN : Construct(opened)
    \/ Del
    \/ Invoke
    \/ \E fails \in BOOLEAN : WriteStep(fails)
    \/ \E raw \in Replies : ReadStep(raw)
    \/ ReadFails
    \/ Finish

Spec == Init /\ [][Next]_vars

\* ------------------------------------------- threads sharing one facade

\* __init__ has returned with the port open
Constructed ==
    /\ life = "open"
    /\ initResult = "ok"
    /\ ser = "Serial"
    /\ portOpen = TRUE
    /\ closeCalls = 0
    /\ delCalls = 0

\* no call is in progress in the single caller of pc
CallerIdle ==
    /\ pc = "idle"
    /\ op = "none"
    /\ args = <<>>
    /\ stage = 0
    /\ written = <<>>
    /\ txCalls = 0
    /\ rxCalls = 0
    /\ responses = <<>>
    /\ warnings = <<>>
    /\ result = "none"
    /\ value = NoValue

\* the calls the threads make
ThreadCalls == {[op |-> "is_aligned", args |-> <<>>],
                [op |-> "is_goto_in_progress", args |-> <<>>],
                [op |-> "cancel_goto", args |-> <<>>],
                [op |-> "goto_ra_dec", args |-> <<A90, A180>>]}

\* what the device answers to a frame, always with its terminator
ThreadReplies == {<<35>>, <<1, 35>>, <<49, 35>>}

InitThreads ==
    /\ Constructed
    /\ rxbuf = <<>>
    /\ CallerIdle
    /\ ThreadsIdle
    /\ DecoderIdle

\* thread c enters an operation; nothing in the class keeps a second thread out
TEnter(c, call) ==
    /\ tpc[c] = "idle"
    /\ tpc' = [tpc EXCEPT ![c] = "send"]
    /\ tcall' = [tcall EXCEPT ![c] = [op |-> call.op, args |-> call.args, stage |-> 1]]
    /\ UNCHANGED <<tresult, tfrom, line, owners, rxbuf>>
    /\ UNCHANGED <<objVars, callVars, decodeVars>>

\* thread c runs up to and through self.ser.write(command) in write()
TWrite(c) ==
    /\ tpc[c] = "send"
    /\ LET p == Prepare(tcall[c].op, tcall[c].args, tcall[c].stage)
           e == IF p.err # "none" THEN p.err
                ELSE IF ser = "None" THEN "NotOpen"
                ELSE IF ~portOpen THEN "TransportError" ELSE "none"
       IN IF e # "none"
          THEN /\ tpc' = [tpc EXCEPT ![c] = "done"]
               /\ tresult' = [tresult EXCEPT ![c] = e]
               /\ line' = line
          ELSE /\ tpc' = [tpc EXCEPT ![c] = "recv"]
               /\ tresult' = tresult
               /\ line' = Append(line, [by |-> c, frame |-> p.frame])
    /\ UNCHANGED <<tcall, tfrom, owners, rxbuf>>
    /\ UNCHANGED <<objVars, callVars, decodeVars>>

\* the device answers the oldest frame on the wire
DeviceAnswers(raw) ==
    /\ line # <<>>
    /\ line' = Tail(line)
    /\ rxbuf' = rxbuf \o raw
    /\ owners' = Append(owners, Head(line).by)
    /\ UNCHANGED <<tpc, tcall, tresult, tfrom>>
    /\ UNCHANGED <<objVars, callVars, decodeVars>>

\* what thread c does with the response its query returned
TAfterQuery(c, response, from) ==
    LET h == Handle(tcall[c].op, tcall[c].stage, response)
    IN /\ tfrom' = [tfrom EXCEPT ![c] = Append(@, from)]
       /\ IF h.err # "none"
          THEN /\ tpc' = [tpc EXCEPT ![c] = "done"]
               /\ tresult' = [tresult EXCEPT ![c] = h.err]
               /\ tcall' = tcall
          ELSE IF tcall[c].stage < NStages(tcall[c].op)
          THEN /\ tpc' = [tpc EXCEPT ![c] = "send"]
               /\ tresult' = tresult
               /\ tcall' = [tcall EXCEPT ![c].stage = @ + 1]
          ELSE /\ tpc' = [tpc EXCEPT ![c] = "done"]
               /\ tresult' = [tresult EXCEPT ![c] = "ok"]
               /\ tcall' = tcall

\* self.ser.read_until(b"#") in thread c returns the first reply in the
\* input buffer, whichever request it answers.  The device answers every
\* frame, so a reply arrives for every thread that waits
TRead(c) ==
    /\ tpc[c] = "recv"
    /\ IndexOf(rxbuf, Terminator, 1) # 0
    /\ rxbuf' = AfterRead(rxbuf)
    /\ owners' = Tail(owners)
    /\ line' = line
    /\ TAfterQuery(c, Strip(ReadUntil(rxbuf)), Head(owners))
    /\ UNCHANGED <<objVars, callVars, decodeVars>>

TFinish(c) ==
    /\ tpc[c] = "done"
    /\ tpc' = [tpc EXCEPT ![c] = "idle"]
    /\ tcall' = [tcall EXCEPT ![c] = NoCall]
    /\ tresult' = [tresult EXCEPT ![c] = "none"]
    /\ tfrom' = [tfrom EXCEPT ![c] = <<>>]
    /\ UNCHANGED <<line, owners, rxbuf>>
    /\ UNCHANGED <<objVars, callVars, decodeVars>>

NextThreads ==
    \/ \E c \in Callers, call \in ThreadCalls : TEnter(c, call)
    \/ \E c \in Callers : TWrite(c)
    \/ \E raw \in ThreadReplies : DeviceAnswers(raw)
    \/ \E c \in Callers : TRead(c)
    \/ \E c \in Callers : TFinish(c)

SpecThreads == InitThreads /\ [][NextThreads]_vars

\* ------------------------------------------- a decoder applied on its own

\* the byte values a response returned by query can hold: read_until stops
\* at the first terminator and strip removes it
ResponseBytes == (0..255) \ {Terminator}

\* 8-byte responses to "h": every zone byte with dst 0, 1 and 2, and the
\* last second of a 29 February
TimeResponses ==
    {<<7, 30, 28, 4, 10, 20, zone, dst>> : zone \in ResponseBytes, dst \in {0, 1, 2}}
    \cup {<<23, 59, 59, 2, 29, year, zone, dst>> :
              year \in {20, 21}, zone \in {0, 239}, dst \in {0, 1}}

\* 8-byte responses to "w": each direction byte valid or not, each degree
\* field in range or not
LocationResponses ==
    {<<lat_deg, 30, 0, lat_dir, lon_deg, 45, 0, lon_dir>> :
        lat_deg \in {45, 91}, lat_dir \in {0, 1, 2, 255},
        lon_deg \in {120, 181}, lon_dir \in {0, 1, 2, 255}}

DecodeInputs ==
    {[name |-> "get_time", response |-> r] : r \in TimeResponses}
    \cup {[name |-> "get_location", response |-> r] : r \in LocationResponses}
    \cup {[name |-> n, response |-> <<b>>] :
              n \in {"get_tracking_mode", "get_device_model", "is_goto_in_progress"},
              b \in ResponseBytes}

InitDecode ==
    /\ Constructed
    /\ rxbuf = <<>>
    /\ CallerIdle
    /\ ThreadsIdle
    /\ din \in DecodeInputs
    /\ dout = NoOutput
    /\ ValuesIdle

\* the operation runs on the response from the return of query to its own
Decode ==
    /\ dout = NoOutput
    /\ dout' = <<Handle(din.name, 1, din.response)>>
    /\ UNCHANGED <<din, objVars, rxbuf, callVars, threadVars, valueVars>>

NextDecode == Decode

SpecDecode == InitDecode /\ [][NextDecode]_vars

\* ------------------------------------------ conversions applied on their own

\* how many attribute assignments a caller makes to the objects it holds
MaxAssign == 1

\* the float a literal stands for: the nearest to p/q, with its sign
FloatOf(x) == Float(x.neg, FDivNat(x.p, x.q).mag)

\* float arguments: every arcsecond up to 2'10", the neighbourhood of a
\* degree and of each bound, decimal and binary fractions, both signs
Decimals ==
    {Decimal(neg, p, 3600) :
        neg \in BOOLEAN,
        p \in (0..130) \cup {3599, 3600, 3601, 165599, 323999, 324000, 324001,
                             647999, 648000, 648001}}
    \cup {Decimal(neg, p, 1) : neg \in BOOLEAN, p \in {1, 45, 89, 90, 91, 179, 180, 181, 200}}
    \cup {Decimal(neg, pq[1], pq[2]) :
             neg \in BOOLEAN,
             pq \in {<<1, 8>>, <<1, 3>>, <<375, 10000>>, <<459999, 10000>>,
                     <<123456, 1000>>, <<900001, 10000>>, <<1800001, 10000>>}}

\* constructor arguments: each field below, at, inside and above its range
FieldInputs ==
    {<<degrees, minutes, seconds, direction>> :
        degrees \in {-1, 0, 45, 90, 91, 180, 181},
        minutes \in {-1, 0, 30, 59, 60},
        seconds \in {-1, 0, 1, 59, 60},
        direction \in CardinalDirectionValues}

Kinds == {"lat", "lon"}

\* payloads of the fixed-length binary responses, as the device sends them
\* before the terminator: with and without a byte equal to the terminator
Payloads ==
    {<<"get_location", <<48, 46, 48, 0, 120, 46, 48, 1>>>>,
     <<"get_location", <<35, 30, 0, 0, 120, 45, 0, 1>>>>,
     <<"get_location", <<45, 35, 10, 1, 35, 35, 35, 0>>>>,
     <<"get_location", <<45, 30, 10, 1, 120, 45, 35, 0>>>>,
     <<"get_time", <<7, 30, 28, 4, 10, 20, 11, 0>>>>,
     <<"get_time", <<7, 30, 35, 4, 10, 20, 11, 0>>>>,
     <<"get_time", <<7, 35, 28, 4, 10, 20, 239, 1>>>>,
     <<"get_time", <<7, 30, 28, 4, 10, 35, 11, 0>>>>,
     <<"get_device_version", <<4, 12>>>>,
     <<"get_device_version", <<35, 2>>>>,
     <<"get_device_version", <<4, 35>>>>,
     <<"get_device_version", <<35, 35>>>>}

\* timezone-aware timestamps of the years 2000, 2023 and 2255 with every
\* whole-hour offset from -23 to 23, in fixed-offset zones and in zones with
\* and without DST in effect
WholeHourTimes ==
    {Time(ymd[1], ymd[2], ymd[3], hms[1], hms[2], hms[3], tzd[1], 3600 * h, tzd[2]) :
        ymd \in {<<2000, 1, 1>>, <<2023, 5, 17>>, <<2255, 12, 31>>},
        hms \in {<<0, 0, 0>>, <<23, 59, 59>>},
        tzd \in {<<"fixed", 0>>, <<"zone", 0>>, <<"zone", 3600>>},
        h \in (-23)..23}

ValueInputs ==
    {ValueInput("to_dms", "none", <<>>, x, NoTime) : x \in Decimals}
    \cup {ValueInput("new", k, f, NoDecimal, NoTime) : k \in Kinds, f \in FieldInputs}
    \cup {ValueInput("from_decimal", k, <<>>, x, NoTime) : k \in Kinds, x \in Decimals}
    \cup UNION {{ValueInput("to_from", k, f, NoDecimal, NoTime) :
                    f \in {g \in FieldInputs : NewDMS(k, g[1], g[2], g[3], g[4]).err = "none"}} :
                 k \in Kinds}
    \cup {ValueInput("receive", p[1], p[2], NoDecimal, NoTime) : p \in Payloads}
    \cup {ValueInput("time", "none", <<>>, NoDecimal, t) : t \in WholeHourTimes}
    \cup {ValueInput("location", "none", <<>>, NoDecimal, NoTime)}

InitValues ==
    /\ Constructed
    /\ rxbuf = <<>>
    /\ CallerIdle
    /\ ThreadsIdle
    /\ din = NoInput
    /\ dout = NoOutput
    /\ vin \in ValueInputs
    /\ vout = <<>>
    /\ held = <<>>
    /\ assigns = 0

\* a conversion gives `out`
Gives(out) ==
    /\ vout = <<>>
    /\ vout' = <<out>>
    /\ UNCHANGED <<vin, held, assigns>>
    /\ UNCHANGED <<din, dout, objVars, rxbuf, callVars, threadVars>>

\* to_dms(x)
CallToDms ==
    /\ vin.fn = "to_dms"
    /\ Gives(to_dms(FloatOf(vin.x)))

\* LatitudeDMS(degrees, minutes, seconds, direction) / LongitudeDMS(...)
CallNew ==
    /\ vin.fn = "new"
    /\ Gives(NewDMS(vin.kind, vin.ints[1], vin.ints[2], vin.ints[3], vin.ints[4]))

\* LatitudeDMS.from_decimal(x).to_decimal() / LongitudeDMS...: what
\* from_decimal gave and, when it gave an object, the decimal of that object
CallFromDecimal ==
    /\ vin.fn = "from_decimal"
    /\ LET r == from_decimal(vin.kind, FloatOf(vin.x))
       IN Gives([err |-> r.err, obj |-> r.obj,
                 back |-> IF r.err = "none" THEN to_decimal(r.obj) ELSE FFromInt(0)])

\* from_decimal(x.to_decimal()) for an object x of either class
CallToFrom ==
    /\ vin.fn = "to_from"
    /\ LET x == NewDMS(vin.kind, vin.ints[1], vin.ints[2], vin.ints[3], vin.ints[4]).obj
           r == from_decimal(vin.kind, to_decimal(x))
       IN Gives([decimal |-> to_decimal(x), err |-> r.err, obj |-> r.obj])

\* query() and the decoder on a payload the device sends before its
\* terminator: read_until(b"#"), strip(b"#"), then the operation's own code
Receive ==
    /\ vin.fn = "receive"
    /\ Gives(Handle(vin.kind, 1, Strip(ReadUntil(vin.ints \o <<Terminator>>))))

\* set_time(t) up to its query, then get_time on the bytes that follow the
\* command byte
TimeRoundTrip ==
    /\ vin.fn = "time"
    /\ LET f == TimeFrame(vin.t)
       IN Gives([err |-> f.err, frame |-> f.frame,
                 back |-> IF f.err = "none" THEN GetTime(Tail(f.frame))
                          ELSE Raise(f.err)])

\* a caller constructs the two objects of a location
NewLocation(l) ==
    /\ vin.fn = "location"
    /\ held = <<>>
    /\ held' = l
    /\ UNCHANGED <<vin, vout, assigns>>
    /\ UNCHANGED <<din, dout, objVars, rxbuf, callVars, threadVars>>

\* x.degrees = v, x.minutes = v or x.seconds = v on one of the objects: the
\* classes define plain attributes, which Python lets any caller assign
SetAttr(i, field, v) ==
    /\ held # <<>>
    /\ vout = <<>>
    /\ assigns < MaxAssign
    /\ assigns' = assigns + 1
    /\ held' = [held EXCEPT ![i] = [@ EXCEPT ![field] = v]]
    /\ UNCHANGED <<vin, vout>>
    /\ UNCHANGED <<din, dout, objVars, rxbuf, callVars, threadVars>>

\* set_location(lat, lng) up to its query, on the objects held
EncodeLocation ==
    /\ held # <<>>
    /\ Gives(LocationFrame(held[1], held[2]))

NextValues ==
    \/ CallToDms
    \/ CallNew
    \/ CallFromDecimal
    \/ CallToFrom
    \/ Receive
    \/ TimeRoundTrip
    \/ \E l \in Locations : NewLocation(l)
    \/ \E i \in {1, 2}, field \in {"degrees", "minutes", "seconds"}, v \in {91, 200, 300} :
          SetAttr(i, field, v)
    \/ EncodeLocation

SpecValues == InitValues /\ [][NextValues]_vars

\* ----------------------------------------------------------- properties

SlewOps == {"slew_azm_variable", "slew_alt_variable", "slew_variable",
            "slew_azm_fixed", "slew_alt_fixed", "slew_fixed", "slew_stop"}

\* the errors a response decoder raises
ResponseErrors == {"MalformedResponse", "InvalidEnumValue", "UnicodeDecodeError"}

\* the call ended without the transport refusing a write or a read
TransportHeld == result \notin {"NotOpen", "TransportError"}

\* C1: whenever a slew operation fails because a rate is out of range, no
\* bytes have been written to the transport during that call.
C1_OutOfRangeSendsNothing ==
    (pc = "done" /\ op \in SlewOps /\ result = "OutOfRange")
        => (written = <<>> /\ txCalls = 0)

\* C2: for every rate in [-16384, 16384], slew_azm_variable / slew_alt_variable
\* send exactly one frame [0x50, 3, axis, direction, rate_high, rate_low, 0, 0]
\* of byte values with rate_high * 256 + rate_low = 4 * |rate|, direction 6
\* for rate >= 0 and 7 for rate < 0; every other rate fails with an
\* out-of-range error.
C2_VariableSlewFrame ==
    (pc = "done" /\ op \in {"slew_azm_variable", "slew_alt_variable"}
                 /\ ser # "None" /\ portOpen /\ result # "TransportError")
        => LET rate == args[1]
               axis == IF op = "slew_azm_variable" THEN 16 ELSE 17
           IN IF -16384 <= rate /\ rate <= 16384
              THEN /\ Len(written) = 1
                   /\ \E hi \in 0..255, lo \in 0..255 :
                        /\ hi * 256 + lo = 4 * Abs(rate)
                        /\ written[1] = <<80, 3, axis, IF rate >= 0 THEN 6 ELSE 7,
                                          hi, lo, 0, 0>>
              ELSE result = "OutOfRange" /\ written = <<>>

\* how many of the responses were non-empty, among those read as an
\* acknowledgement (all but the alignment response of a goto)
RECURSIVE NonEmptyFrom(_, _)
NonEmptyFrom(rs, i) ==
    IF i > Len(rs) THEN 0
    ELSE (IF rs[i] # <<>> THEN 1 ELSE 0) + NonEmptyFrom(rs, i + 1)

RECURSIVE Occurrences(_, _)
Occurrences(ws, w) ==
    IF ws = <<>> THEN 0 ELSE (IF Head(ws) = w THEN 1 ELSE 0) + Occurrences(Tail(ws), w)

\* C3: for an acknowledgement-only command whose frame was written, a
\* non-empty response never makes the call fail: each non-empty response adds
\* one protocol-anomaly warning, an empty one adds none, no decoder error is
\* raised on an acknowledgement, and the call whose last response has arrived
\* returns normally.
C3_AckResponseNeverFails ==
    op \in AckOps =>
        /\ Occurrences(warnings, "ProtocolAnomaly")
              = NonEmptyFrom(responses, IF op \in GotoOps THEN 2 ELSE 1)
        /\ result \in ResponseErrors => (op \in GotoOps /\ Len(responses) = 1)
        /\ (pc = "done" /\ Len(responses) = NStages(op)) => result = "ok"

\* C3 witness: sync_ra_dec got "1" in answer, returned, and warned
C3_Witness ==
    /\ pc = "done" /\ op = "sync_ra_dec" /\ result = "ok"
    /\ responses = << <<49>> >>
    /\ warnings = <<"ProtocolAnomaly">>

\* C4 as claimed: a goto writes its goto frame for every response the
\* transport delivers to the alignment query.
C4_GotoAlwaysSent ==
    (pc = "done" /\ op \in GotoOps /\ Len(responses) >= 1 /\ TransportHeld)
        => Len(written) = 2

\* C4 amended: for every 1-byte response to the alignment query the goto
\* frame is written, with the not-aligned warning exactly when that byte is
\* not 0x01; a response of any other length fails the goto with a
\* malformed-response error and the goto frame is not written.
C4_GotoSentOnOneByteAlignment ==
    (pc = "done" /\ op \in GotoOps /\ Len(responses) >= 1 /\ TransportHeld)
        => IF Len(responses[1]) = 1
           THEN /\ Len(written) = 2
                /\ written[2][1] = GotoLetter(IsPrecise(op), IsRaDec(op))
                /\ (Occurrences(warnings, "NotAligned") = 1) <=> (responses[1] # <<1>>)
           ELSE /\ result = "MalformedResponse"
                /\ Len(written) = 1
                /\ warnings = <<>>

\* C4 witness: a goto whose alignment query answered 0 has sent its frame
C4_Witness ==
    /\ pc = "done" /\ op \in GotoOps /\ result = "ok"
    /\ Len(responses) = 2 /\ responses[1] = <<0>>
    /\ Len(written) = 2 /\ warnings = <<"NotAligned">>

\* comparison and addition of unbounded naturals (hex digits, big-endian)
RECURSIVE LexLeq(_, _)
LexLeq(a, b) ==
    IF a = <<>> THEN TRUE
    ELSE IF Head(a) # Head(b) THEN Head(a) < Head(b) ELSE LexLeq(Tail(a), Tail(b))

Leq(a, b) ==
    LET x == Normalize(a)
        y == Normalize(b)
    IN IF Len(x) # Len(y) THEN Len(x) < Len(y) ELSE LexLeq(x, y)

RECURSIVE AddCarry(_, _, _)
AddCarry(a, b, c) ==
    IF a = <<>> /\ b = <<>> THEN (IF c = 0 THEN <<>> ELSE <<c>>)
    ELSE LET da == IF a = <<>> THEN 0 ELSE a[Len(a)]
             db == IF b = <<>> THEN 0 ELSE b[Len(b)]
             fa == IF a = <<>> THEN <<>> ELSE SubSeq(a, 1, Len(a) - 1)
             fb == IF b = <<>> THEN <<>> ELSE SubSeq(b, 1, Len(b) - 1)
             t == da + db + c
         IN Append(AddCarry(fa, fb, t \div 16), t % 16)

Add(a, b) == AddCarry(a, b, 0)

Zeros(k) == [i \in 1..k |-> 0]

\* the unit of each precision on the grid of the angles: 360/2^16 degrees is
\* 16^5 steps of 360/16^9 degrees, 360/2^32 degrees is 16 steps
UnitDigits(is_precise) == IF is_precise THEN 1 ELSE 5

\* the angle that `units` units stand for and `angle` differ by at most tol
\* grid steps
UnitsWithin(units, angle, is_precise, tol) ==
    LET scaled == units \o Zeros(UnitDigits(is_precise))
    IN Leq(scaled, Add(angle, tol)) /\ Leq(angle, Add(scaled, tol))

\* one unit and half a unit, in grid steps
OneUnit(is_precise) == <<1>> \o Zeros(UnitDigits(is_precise))
HalfUnit(is_precise) == <<8>> \o Zeros(UnitDigits(is_precise) - 1)

IsLowerHexChar(b) == b \in (48..57) \cup (97..102)

\* the call has written the frame that carries its two angles
AngleFrameWritten ==
    \/ op \in GotoOps /\ Len(written) = 2
    \/ op \in SyncOps /\ Len(written) = 1

\* C5: for every goto and every pair of coordinates in [0, 360), the frame is
\* the letter (R/B, lowercase when precise), then exactly two fields of
\* exactly 4 (8) lowercase hex digits joined by one ",", each the coordinate
\* rounded to the nearest unit: 10 bytes coarse, 18 precise.
C5_GotoFrameShape ==
    (op \in GotoOps /\ Len(written) = 2 /\ InRevolution(args[1]) /\ InRevolution(args[2]))
        => LET w == FieldWidth(IsPrecise(op))
               f == written[2]
           IN /\ Len(f) = 2 * w + 2
              /\ f[1] = (IF IsRaDec(op) THEN (IF IsPrecise(op) THEN 114 ELSE 82)
                                       ELSE (IF IsPrecise(op) THEN 98 ELSE 66))
              /\ f[w + 2] = Comma
              /\ \A i \in (2..(w + 1)) \cup ((w + 3)..(2 * w + 2)) : IsLowerHexChar(f[i])
              /\ UnitsWithin(ParseHex(SubSeq(f, 2, w + 1)).digits, args[1],
                             IsPrecise(op), HalfUnit(IsPrecise(op)))
              /\ UnitsWithin(ParseHex(SubSeq(f, w + 3, 2 * w + 2)).digits, args[2],
                             IsPrecise(op), HalfUnit(IsPrecise(op)))

\* C6: for every angle in [0, 360), the field the goto/sync encoders write for
\* it, decoded as the position decoder decodes a field (int(field, 16) /
\* factor), is a non-negative angle within one unit (360/2^16 coarse,
\* 360/2^32 precise) of the angle encoded.
C6_EncodeDecodeWithinOneUnit ==
    AngleFrameWritten =>
        LET fields == Split(Tail(written[Len(written)]), Comma)
        IN /\ Len(fields) = 2
           /\ \A i \in 1..2 :
                InRevolution(args[i]) =>
                    LET d == ParseHex(fields[i])
                    IN /\ d.ok
                       /\ ~d.neg
                       /\ UnitsWithin(d.digits, args[i], IsPrecise(op),
                                      OneUnit(IsPrecise(op)))

\* C6 witness: both precisions have encoded an angle that is not a whole
\* number of units (a tie, rounded to even)
C6_Witness ==
    /\ AngleFrameWritten
    /\ \/ ~IsPrecise(op) /\ args[2] = ATie
       \/ IsPrecise(op) /\ args[2] = ATiePrecise

\* the response length each value-returning operation requires
ExpectedLen(name) ==
    CASE name \in {"get_position_ra_dec", "get_position_azm_alt"} -> 9
      [] name \in {"get_position_ra_dec_precise", "get_position_azm_alt_precise"} -> 17
      [] name \in {"get_location", "get_time"} -> 8
      [] name = "get_device_version" -> 2
      [] OTHER -> 1

\* C7: a value-returning operation whose response has another length than
\* its contract fails with a malformed-response error, whatever the bytes
\* are, and returns no value.
C7_LengthCheckedFirst ==
    (pc = "done" /\ op \in ValueOps /\ Len(responses) = 1
                 /\ Len(responses[1]) # ExpectedLen(op))
        => (result = "MalformedResponse" /\ value = NoValue)

\* C7 witness: get_tracking_mode got two bytes and failed on the length
C7_Witness ==
    /\ pc = "done" /\ op = "get_tracking_mode"
    /\ responses = << <<4, 12>> >>
    /\ result = "MalformedResponse"

\* C8: once teardown has run on a facade whose open succeeded, close has been
\* invoked exactly once, however many times __del__ ran.
C8_ClosedExactlyOnce ==
    (life = "open" /\ delCalls >= 1) => closeCalls = 1

\* C9: when the open fails in __init__, the transport error reaches the
\* caller, the facade holds no connection handle and never has an open port,
\* and teardown never invokes close.
C9_FailedOpenNeverCloses ==
    life = "failed" =>
        /\ initResult = "TransportError"
        /\ ser = "None"
        /\ ~portOpen
        /\ closeCalls = 0

\* C9 witness: __del__ has run on an object whose open failed
C9_Witness == life = "failed" /\ delCalls >= 1

\* C10: write and query on a facade whose connection is not open fail with
\* the facade's own "Serial port is not open" error, and no write or read
\* reaches the transport.
C10_NotOpenRaisedByFacade ==
    (pc = "done" /\ op \in {"write", "query"} /\ ~portOpen)
        => (result = "NotOpen" /\ txCalls = 0 /\ rxCalls = 0)

\* C11: at most one request is in flight on a connection: with two callers
\* on one facade no request is written while another awaits its response, and
\* every response is decoded by the operation that sent its request.
C11_AtMostOneInFlight ==
    /\ Cardinality({c \in Callers : tpc[c] = "recv"}) <= 1
    /\ \A c \in Callers : \A i \in 1..Len(tfrom[c]) : tfrom[c][i] = c

\* C12 as claimed: every public operation that returns has issued exactly one
\* transport write and exactly one read, and no call writes a second frame.
C12_OneWriteOneRead ==
    op \notin {"none", "write"} =>
        /\ txCalls <= 1
        /\ (pc = "done" /\ result = "ok") => (txCalls = 1 /\ rxCalls = 1)

\* the queries an operation makes when nothing fails: two for the gotos (the
\* alignment query, then the goto frame) and for the two-axis slews (azimuth,
\* then altitude), one for every other operation
QueriesOf(name) ==
    IF name \in {"goto_ra_dec", "goto_ra_dec_precise", "goto_azm_alt",
                 "goto_azm_alt_precise", "slew_variable", "slew_fixed", "slew_stop"}
    THEN 2 ELSE 1

\* C12 amended: every query of an operation is one transport write followed
\* by one read, and no frame is written before the read of the previous one
\* has returned; an operation that returns has made exactly one query, except
\* goto_* (the alignment query "J", then the goto frame) and slew_variable,
\* slew_fixed, slew_stop (the azimuth frame, then the altitude frame), which
\* have made exactly two; write() alone writes one frame and reads nothing.
C12_OneWritePerQuery ==
    op # "none" =>
        /\ Len(written) <= txCalls
        /\ txCalls <= QueriesOf(op)
        /\ IF op = "write" THEN rxCalls = 0
           ELSE rxCalls <= txCalls /\ txCalls <= rxCalls + 1
        /\ (pc = "done" /\ result = "ok") =>
              /\ txCalls = QueriesOf(op)
              /\ Len(written) = QueriesOf(op)
              /\ op # "write" => rxCalls = QueriesOf(op)
              /\ op \in GotoOps => written[1] = <<74>>
              /\ op \in {"slew_variable", "slew_fixed", "slew_stop"}
                    => (written[1][3] = 16 /\ written[2][3] = 17)

\* C12 witness: slew_stop has returned after its two queries
C12_Witness ==
    /\ pc = "done" /\ op = "slew_stop" /\ result = "ok"
    /\ Len(written) = 2 /\ txCalls = 2 /\ rxCalls = 2

\* C13: no operation retries.  A call never makes more write attempts than
\* the queries it has reached, never writes the same frame twice, and once a
\* transport write or read has failed the call is over with that failure as
\* its result and no value: the failed query was its last write attempt (the
\* altitude frame of a two-axis slew and the goto frame of a goto are not
\* sent after the first query failed).
C13_NoRetry ==
    /\ txCalls <= stage
    /\ rxCalls <= txCalls
    /\ \A i \in 1..Len(written) : \A j \in 1..Len(written) :
          i < j => written[i] # written[j]
    /\ result = "TransportError" =>
          /\ pc = "done"
          /\ value = NoValue
          /\ txCalls = stage
          /\ Len(written) = rxCalls
          /\ rxCalls \in {stage - 1, stage}

\* C13 witness: the read of slew_variable's azimuth query failed and the call
\* ended with one frame written
C13_Witness ==
    /\ pc = "done" /\ op = "slew_variable" /\ result = "TransportError"
    /\ stage = 1 /\ Len(written) = 1 /\ txCalls = 1 /\ rxCalls = 1

\* C14: for every integer rate in [-9, 9], slew_azm_fixed / slew_alt_fixed
\* send exactly the frame [0x50, 2, axis, direction, |rate|, 0, 0, 0] with
\* axis 16 (azimuth) or 17 (altitude), direction 36 for rate >= 0 and 37 for
\* rate < 0; every other rate fails with an out-of-range error and sends
\* nothing.
C14_FixedSlewFrame ==
    (pc = "done" /\ op \in {"slew_azm_fixed", "slew_alt_fixed"}
                 /\ ser # "None" /\ portOpen /\ result # "TransportError")
        => LET rate == args[1]
               axis == IF op = "slew_azm_fixed" THEN 16 ELSE 17
           IN IF -9 <= rate /\ rate <= 9
              THEN written = << <<80, 2, axis, IF rate >= 0 THEN 36 ELSE 37,
                                  IF rate < 0 THEN -rate ELSE rate, 0, 0, 0>> >>
              ELSE result = "OutOfRange" /\ written = <<>> /\ txCalls = 0

\* C14 witness: slew_alt_fixed(-9) has sent its frame
C14_Witness ==
    /\ pc = "done" /\ op = "slew_alt_fixed" /\ result = "ok"
    /\ args = <<-9>>
    /\ written = << <<80, 2, 17, 37, 9, 0, 0, 0>> >>

\* C15: for a response of the contract length, get_tracking_mode,
\* get_device_model and get_location fail with an invalid-enum-value error
\* whenever the tracking-mode byte is not in {0,1,2,3}, the model byte is not
\* in {1,3,4,5,6,7,9,10,11,12} or a location direction byte is not in {0,1},
\* whatever the other bytes are; otherwise the matching member is returned.
C15_InvalidEnumValue ==
    (pc = "done" /\ op \in {"get_tracking_mode", "get_device_model", "get_location"}
                 /\ Len(responses) = 1 /\ Len(responses[1]) = ExpectedLen(op))
        => LET r == responses[1]
               bad == CASE op = "get_tracking_mode" -> r[1] \notin {0, 1, 2, 3}
                        [] op = "get_device_model" ->
                              r[1] \notin {1, 3, 4, 5, 6, 7, 9, 10, 11, 12}
                        [] OTHER -> r[4] \notin {0, 1} \/ r[8] \notin {0, 1}
           IN IF bad THEN result = "InvalidEnumValue" /\ value = NoValue
              ELSE /\ result = "ok"
                   /\ op = "get_location" =>
                         (value[1][1].direction = r[4] /\ value[1][2].direction = r[8])
                   /\ op # "get_location" => value = <<r[1]>>

\* the UTC offset, in hours, that a zone byte stands for
ZoneHours(zone) == IF zone <= 24 THEN zone ELSE zone - 256

C17_DstAddsOneHour ==
    (pc = "done" /\ op = "get_time" /\ result = "ok"
                 /\ Len(responses[1]) = 8 /\ responses[1][8] = 1)
        => value[1].offset_hours = ZoneHours(responses[1][7]) + 1

\* the byte a UTC offset of `seconds` is sent as: the offset in whole hours
\* (floored), plus 256 when negative
ZoneByte(seconds) ==
    IF seconds \div 3600 < 0 THEN seconds \div 3600 + 256 ELSE seconds \div 3600

\* the frame of set_time for timestamp t, but for its last byte
TimeFrameHead(t) ==
    <<72, t.hour, t.minute, t.second, t.month, t.day, t.year - 2000, ZoneByte(t.offset)>>

\* set_time was called with a timezone-aware timestamp and the transport
\* refused nothing
AwareTimeSet ==
    /\ pc = "done" /\ op = "set_time" /\ args[1].tz # "naive"
    /\ ser # "None" /\ portOpen /\ result # "TransportError"

\* C18 as claimed: for every timezone-aware timestamp set_time sends exactly
\* one 9-byte frame [0x48, hour, minute, second, month, day, year-2000,
\* zone_byte, dst_flag] of byte values.
C18_TimeFrameForEveryAwareTime ==
    AwareTimeSet =>
        /\ Len(written) = 1
        /\ Len(written[1]) = 9
        /\ \A i \in 1..9 : written[1][i] \in 0..255
        /\ SubSeq(written[1], 1, 8) = TimeFrameHead(args[1])

\* C18 amended: for every timezone-aware timestamp of a year in 2000..2255
\* set_time sends exactly one 9-byte frame [0x48, hour, minute, second,
\* month, day, year-2000, zone_byte, dst_flag] of byte values, zone_byte the
\* UTC offset in whole hours, plus 256 when negative; for any other year it
\* fails with ValueError and sends nothing.
C18_TimeFrameYearInByte ==
    AwareTimeSet =>
        IF 2000 <= args[1].year /\ args[1].year <= 2255
        THEN /\ Len(written) = 1
             /\ Len(written[1]) = 9
             /\ \A i \in 1..9 : written[1][i] \in 0..255
             /\ SubSeq(written[1], 1, 8) = TimeFrameHead(args[1])
        ELSE result = "ValueError" /\ written = <<>> /\ txCalls = 0

\* C18 witness: an offset of -7 hours was sent as zone byte 249
C18_Witness ==
    /\ AwareTimeSet /\ result = "ok"
    /\ args[1].offset = -25200
    /\ Len(written) = 1 /\ written[1][8] = 249

\* C19: the dst_flag byte set_time sends is 0 exactly when the timestamp's
\* timezone reports a DST delta of zero, and 1 in every other case, a
\* timezone without DST information (dst() absent) included.
C19_DstFlag ==
    (op = "set_time" /\ Len(written) = 1) =>
        written[1][9] = (IF args[1].tz = "zone" /\ args[1].dst = 0 THEN 0 ELSE 1)

\* C19 witness: a fixed-offset timestamp was sent with dst_flag 1
C19_Witness ==
    /\ op = "set_time" /\ Len(written) = 1
    /\ args[1].tz = "fixed"
    /\ written[1][9] = 1

\* C20: for every 1-byte response is_goto_in_progress returns true when the
\* byte is ASCII "1" and false for every other byte value; it never fails.
C20_GotoInProgressNeverFails ==
    (pc = "done" /\ op = "is_goto_in_progress"
                 /\ Len(responses) = 1 /\ Len(responses[1]) = 1)
        => (result = "ok" /\ value = <<responses[1][1] = 49>>)

\* C21: constructing a LatitudeDMS succeeds exactly when degrees is in 0..90,
\* minutes in 0..59 and seconds in 0..59, and a LongitudeDMS exactly when
\* degrees is in 0..180 with the same minutes and seconds; on success the
\* object holds the arguments, otherwise the constructor fails with an
\* out-of-range error and gives no object.
C21_ConstructorRange ==
    (vin.fn = "new" /\ vout # <<>>) =>
        LET top == IF vin.kind = "lat" THEN 90 ELSE 180
            inRange == /\ vin.ints[1] \in 0..top
                       /\ vin.ints[2] \in 0..59
                       /\ vin.ints[3] \in 0..59
        IN IF inRange
           THEN /\ vout[1].err = "none"
                /\ vout[1].obj = [degrees |-> vin.ints[1], minutes |-> vin.ints[2],
                                  seconds |-> vin.ints[3], direction |-> vin.ints[4]]
           ELSE /\ vout[1].err = "OutOfRange"
                /\ vout[1].obj = NoObject

\* a LongitudeDMS was constructed with every field at the top of its range
C21_Witness ==
    /\ vin.fn = "new"
    /\ vin.kind = "lon"
    /\ vin.ints = <<180, 59, 59, 1>>
    /\ vout # <<>>
    /\ vout[1].err = "none"

\* C22: LatitudeDMS.from_decimal(v) succeeds for every v in [-90, 90] and
\* LongitudeDMS.from_decimal(v) for every v in [-180, 180], with direction
\* NORTH / EAST (0) when v >= 0 and SOUTH / WEST (1) when v < 0 and fields
\* that are not negative; for every v outside the bound it fails with an
\* out-of-range error.
C22_FromDecimalBound ==
    (vin.fn = "from_decimal" /\ vout # <<>>) =>
        LET v == FloatOf(vin.x)
            top == IF vin.kind = "lat" THEN 90 ELSE 180
            inBound == ~XLess(XFromNat(top) \o XZeros(FixedLimbs), v.mag)
            negative == v.neg /\ v.mag # <<>>
        IN IF inBound
           THEN /\ vout[1].err = "none"
                /\ vout[1].obj.direction = (IF negative THEN 1 ELSE 0)
                /\ vout[1].obj.degrees >= 0
                /\ vout[1].obj.minutes >= 0
                /\ vout[1].obj.seconds >= 0
           ELSE vout[1].err = "OutOfRange"

\* LatitudeDMS.from_decimal(-90.0) gave 90 degrees SOUTH
C22_Witness ==
    /\ vin.fn = "from_decimal"
    /\ vin.kind = "lat"
    /\ vin.x = Decimal(TRUE, 90, 1)
    /\ vout # <<>>
    /\ vout[1].err = "none"
    /\ vout[1].obj = DMS(90, 0, 0, 1)

\* one degree, and the sign of a float: -1, 0 or 1
OneDegree == <<1>> \o XZeros(FixedLimbs)

FSign(a) == IF a.mag = <<>> THEN 0 ELSE IF a.neg THEN -1 ELSE 1

\* |a - b|, exactly
XDistance(a, b) ==
    IF a.neg = b.neg
    THEN (IF XLess(a.mag, b.mag) THEN XSub(b.mag, a.mag) ELSE XSub(a.mag, b.mag))
    ELSE XAdd(a.mag, b.mag)

\* C23: for every d within the bound, from_decimal(d).to_decimal() is not of
\* the opposite sign to d and differs from d by less than one arcsecond:
\* 3600 times the difference is less than one degree.
C23_RoundTripWithinArcsecond ==
    (vin.fn = "from_decimal" /\ vout # <<>> /\ vout[1].err = "none") =>
        /\ FSign(vout[1].back) * FSign(FloatOf(vin.x)) >= 0
        /\ XLess(XMul(XDistance(vout[1].back, FloatOf(vin.x)), 3600), OneDegree)

\* C24: to_dms(x) ignores the sign of x and truncates: to_dms(x) = to_dms(-x),
\* the minutes and the seconds are in 0..59, and degrees * 3600 +
\* minutes * 60 + seconds is the whole number of arcseconds in |x| rounded
\* down; -45.9999 gives (45, 59, 59).
C24_ToDmsTruncates ==
    (vin.fn = "to_dms" /\ vout # <<>>) =>
        LET x == FloatOf(vin.x)
            dms == vout[1]
        IN /\ dms = to_dms(FNeg(x))
           /\ dms[2] \in 0..59
           /\ dms[3] \in 0..59
           /\ dms[1] * 3600 + dms[2] * 60 + dms[3] = FInt(Float(FALSE, XMul(x.mag, 3600)))
           /\ (vin.x = Decimal(TRUE, 459999, 10000) => dms = <<45, 59, 59>>)

\* C25: a value object cannot change once constructed, so every DMS value
\* that set_location encodes satisfies the range invariant of its
\* constructor.
C25_EncodedValuesInRange ==
    (vin.fn = "location" /\ vout # <<>>) =>
        /\ assigns = 0
        /\ held[1].degrees \in 0..90 /\ held[1].minutes \in 0..59 /\ held[1].seconds \in 0..59
        /\ held[2].degrees \in 0..180 /\ held[2].minutes \in 0..59 /\ held[2].seconds \in 0..59

\* C26: slew_variable, slew_fixed and slew_stop write the azimuth frame (axis
\* 16) first and the altitude frame (axis 17) second, the altitude frame only
\* after the azimuth query has returned, and nothing else; the frames of
\* slew_stop are the fixed-rate frames with rate 0 and direction 36, both of
\* them once slew_stop has returned.
C26_AzimuthThenAltitude ==
    op \in {"slew_variable", "slew_fixed", "slew_stop"} =>
        /\ Len(written) <= 2
        /\ Len(written) >= 1 => written[1][3] = 16
        /\ Len(written) = 2 => (written[2][3] = 17 /\ Len(responses) >= 1 /\ rxCalls >= 1)
        /\ op = "slew_stop" =>
              /\ Len(written) >= 1 => written[1] = <<80, 2, 16, 36, 0, 0, 0, 0>>
              /\ Len(written) = 2 => written[2] = <<80, 2, 17, 36, 0, 0, 0, 0>>
              /\ (pc = "done" /\ result = "ok") => Len(written) = 2

\* slew_stop has written its altitude frame after the azimuth query returned
C26_Witness ==
    /\ op = "slew_stop"
    /\ written = <<<<80, 2, 16, 36, 0, 0, 0, 0>>, <<80, 2, 17, 36, 0, 0, 0, 0>>>>
    /\ Len(responses) = 1
    /\ pc = "recv"

\* C27: a payload byte equal to the terminator (35) is data in the
\* fixed-length binary responses: for every valid 8-byte location payload,
\* 8-byte time payload and 2-byte version payload sent before the terminator,
\* get_location, get_time and get_device_version return the fields sent.
C27_TerminatorByteIsData ==
    (vin.fn = "receive" /\ vout # <<>>) =>
        LET p == vin.ints
        IN /\ vout[1].err = "none"
           /\ vin.kind = "get_location" =>
                 vout[1].value = <<<<DMS(p[1], p[2], p[3], p[4]), DMS(p[5], p[6], p[7], p[8])>>>>
           /\ vin.kind = "get_time" =>
                 vout[1].value = <<[year |-> p[6] + 2000, month |-> p[4], day |-> p[5],
                                    hour |-> p[1], minute |-> p[2], second |-> p[3],
                                    offset_hours |-> IF p[7] > 24 THEN p[7] - 256 ELSE p[7]]>>
           /\ vin.kind = "get_device_version" => vout[1].value = <<<<p[1], p[2]>>>>

\* C28: every position a get_position_* operation returns is a pair of angles
\* in [0, 360): the response decoded is exactly two fields of 4 (coarse) or 8
\* (precise) hex digits with one comma between them, so each raw value is not
\* negative and is below 16^4 (coarse) or 16^8 (precise).
C28_PositionInRevolution ==
    (pc = "done" /\ op \in PositionOps /\ result = "ok") =>
        LET r == responses[1]
            w == IF IsPrecise(op) THEN 8 ELSE 4
        IN /\ Len(r) = 2 * w + 1
           /\ r[w + 1] = 44
           /\ \A i \in (1..(2 * w + 1)) \ {w + 1} : IsHexChar(r[i])
           /\ \A i \in {1, 2} : ~value[1][i].neg /\ Len(value[1][i].raw) <= w

\* C29: for every object x a constructor accepts, x.to_decimal() lies within
\* the bound of from_decimal, and from_decimal(x.to_decimal()) succeeds and
\* gives the degrees, minutes, seconds and direction of x.
C29_DecimalRoundTrip ==
    (vin.fn = "to_from" /\ vout # <<>>) =>
        LET top == IF vin.kind = "lat" THEN 90 ELSE 180
        IN /\ ~XLess(XFromNat(top) \o XZeros(FixedLimbs), vout[1].decimal.mag)
           /\ vout[1].err = "none"
           /\ vout[1].obj = DMS(vin.ints[1], vin.ints[2], vin.ints[3], vin.ints[4])

====
